---- MODULE Spec2Model ----
(***************************************************************************)
(* A model of intspector (src/src/lib.rs, src/src/main.rs).                *)
(*                                                                         *)
(* 64-bit machine words (u64, and i64 in two's complement) are modelled as *)
(* four 16-bit limbs, because the values of interest (i64::MIN, i64::MAX,  *)
(* 2^63, u64::MAX) lie outside the range of TLC's integers.  Strings are   *)
(* sequences of one-character strings.                                     *)
(***************************************************************************)
EXTENDS Integers, Sequences, FiniteSets, TLC

VARIABLES
    overflow_checks,  \* build profile: TRUE = debug (arithmetic overflow panics)
    libm_nearest,     \* platform libm: TRUE = f64::log2 is correctly rounded
    call,             \* the library function last applied, its inputs and result
    pc,               \* main.rs: control state of default_action
    bits_opt,         \* main.rs: the raw --bits option
    args,             \* main.rs: the positional arguments
    has_term,         \* main.rs: whether term_size::dimensions() is Some
    next_arg,         \* main.rs: number of arguments consumed by the loop
    stdout            \* main.rs: what has been printed, in order

vars == <<overflow_checks, libm_nearest, call, pc, bits_opt, args, has_term,
          next_arg, stdout>>

-----------------------------------------------------------------------------
(* Bounds of the model.                                                    *)

\* values 2^k - d and 2^k + d are drawn for every k and every d in 0..NearOffset
NearOffset == 1
\* the values 0..MaxSmall are drawn as well
MaxSmall == 16
\* add_spacers is applied to every digit string of length 0..MaxStrLen
MaxStrLen == 7
\* and with every block_len in 0..MaxBlockLen
MaxBlockLen == 3
\* parse_int is applied to every text of length 0..MaxTextLen
MaxTextLen == 3
\* default_action is run on every list of 0..MaxArgs arguments
MaxArgs == 2

\* machine word width of u64 / i64
WordBits == 64
\* f64 significand precision (bits), used by `as f64`
F64Precision == 53

-----------------------------------------------------------------------------
(* Machine words as four 16-bit limbs, least significant first.            *)

LimbBase == 2^16

Word(l1, l2, l3, l4) == <<l1, l2, l3, l4>>

Zero == Word(0, 0, 0, 0)

\* a natural number below 2^31 as a word, and a word below 2^30 as a number
FromNat(n) == Word(n % LimbBase, n \div LimbBase, 0, 0)
ToNat(a) == a[1] + LimbBase * a[2]

\* 2^n as a word, for n in 0..63
PowLimb(n, j) == IF j = (n \div 16) + 1 THEN 2^(n % 16) ELSE 0
PowWord(n) == Word(PowLimb(n, 1), PowLimb(n, 2), PowLimb(n, 3), PowLimb(n, 4))

\* bit i of a word
Bit(a, i) == (a[(i \div 16) + 1] \div 2^(i % 16)) % 2

\* unsigned a < b
Less(a, b) ==
    \E j \in 1..4 : a[j] < b[j] /\ \A k \in (j + 1)..4 : a[k] = b[k]

\* a + b modulo 2^64, and whether a + b carries out of 64 bits
AddCarry(a, b) ==
    LET s1 == a[1] + b[1]
        s2 == a[2] + b[2] + (s1 \div LimbBase)
        s3 == a[3] + b[3] + (s2 \div LimbBase)
        s4 == a[4] + b[4] + (s3 \div LimbBase)
    IN [sum |-> Word(s1 % LimbBase, s2 % LimbBase, s3 % LimbBase, s4 % LimbBase),
        carry |-> s4 >= LimbBase]

wrapping_add(a, b) == AddCarry(a, b).sum

\* a - b modulo 2^64
wrapping_sub(a, b) ==
    LET d1 == a[1] - b[1]
        d2 == a[2] - b[2] - (IF d1 < 0 THEN 1 ELSE 0)
        d3 == a[3] - b[3] - (IF d2 < 0 THEN 1 ELSE 0)
        d4 == a[4] - b[4] - (IF d3 < 0 THEN 1 ELSE 0)
    IN Word(d1 % LimbBase, d2 % LimbBase, d3 % LimbBase, d4 % LimbBase)

\* a * n for a small n, modulo 2^64, and whether the product overflows u64
MulSmall(a, n) ==
    LET p1 == a[1] * n
        p2 == a[2] * n + (p1 \div LimbBase)
        p3 == a[3] * n + (p2 \div LimbBase)
        p4 == a[4] * n + (p3 \div LimbBase)
    IN [prod |-> Word(p1 % LimbBase, p2 % LimbBase, p3 % LimbBase, p4 % LimbBase),
        overflow |-> p4 >= LimbBase]

\* quotient and remainder of a by a small n, by long division
DivSmall(a, n) ==
    LET t4 == a[4]
        t3 == (t4 % n) * LimbBase + a[3]
        t2 == (t3 % n) * LimbBase + a[2]
        t1 == (t2 % n) * LimbBase + a[1]
    IN [q |-> Word(t1 \div n, t2 \div n, t3 \div n, t4 \div n), r |-> t1 % n]

\* position of the most significant 1 bit of a non-zero word
HighBit(a) ==
    LET j == CHOOSE k \in 1..4 : a[k] # 0 /\ \A h \in (k + 1)..4 : a[h] = 0
    IN 16 * (j - 1) + (CHOOSE i \in 0..15 : 2^i <= a[j] /\ a[j] < 2^(i + 1))

\* u64::MAX
U64_MAX == Word(LimbBase - 1, LimbBase - 1, LimbBase - 1, LimbBase - 1)
\* i64::MIN and i64::MAX, in two's complement
I64_MIN == PowWord(WordBits - 1)
I64_MAX == wrapping_sub(I64_MIN, FromNat(1))

\* i64 sign test and magnitude (|i64::MIN| = 2^63 is a valid u64)
IsNeg(v) == Bit(v, WordBits - 1) = 1
Magnitude(v) == IF IsNeg(v) THEN wrapping_sub(Zero, v) ELSE v

\* results of operations that may panic
Ok(v) == [panic |-> FALSE, val |-> v]
Panicked == [panic |-> TRUE]

\* Option<T>
None == [some |-> FALSE]
Some(v) == [some |-> TRUE, val |-> v]

-----------------------------------------------------------------------------
(* Floating point, as far as min_bits uses it.                             *)

\* `x as f64` for an unsigned magnitude: round to nearest, ties to even, at
\* 53 significant bits.  The result is an integer, kept as a word.  At most
\* 11 low bits are dropped, all of them in the lowest limb.
RoundF64(m) ==
    IF m = Zero \/ HighBit(m) < F64Precision THEN m
    ELSE LET drop == HighBit(m) - (F64Precision - 1)
             low == m[1] % 2^drop
             kept == wrapping_sub(m, FromNat(low))
             half == low >= 2^(drop - 1)
             sticky == low % 2^(drop - 1) # 0
             odd == Bit(m, drop) = 1
         IN IF half /\ (sticky \/ odd) THEN wrapping_add(kept, FromNat(2^drop))
            ELSE kept

\* `v as f64` for an i64
i64_as_f64(v) == [neg |-> IsNeg(v), mag |-> RoundF64(Magnitude(v))]

\* whether d * 2^52 <= n * 2^e: the distance d is at most n units in the last
\* place of a float with exponent e >= 32
WithinUlps(d, n, e) ==
    IF e >= F64Precision - 1
    THEN ~Less(FromNat(n * 2^(e - (F64Precision - 1))), d)
    ELSE ~Less(FromNat(n), d) /\ ToNat(d) * 2^((F64Precision - 1) - e) <= n

\* the float is so close below the next power of two that a correctly rounded
\* log2 returns the integer: within 22 ulps, exponent >= 32
NearNextPow(m) ==
    LET e == HighBit(m)
        next == IF e = WordBits - 1 THEN Zero ELSE PowWord(e + 1)
    IN e >= 32 /\ WithinUlps(wrapping_sub(next, m), 22, e)

\* the float is so close above a power of two that a correctly rounded log2
\* returns the integer: within 11 ulps, exponent >= 32
NearPrevPow(m) ==
    LET e == HighBit(m)
    IN e >= 32 /\ WithinUlps(wrapping_sub(m, PowWord(e)), 11, e)

\* f64::log2.  The result is NaN, -inf, or a finite number described by its
\* floor and by whether it is an integer.  Powers of two give the exact
\* exponent.  Rust leaves the precision of log2 unspecified: near a power of
\* two the result is the integer when libm rounds correctly, and the
\* neighbouring float on the true side otherwise.
log2(x) ==
    IF x.mag = Zero THEN [kind |-> "neg_inf"]
    ELSE IF x.neg THEN [kind |-> "nan"]
    ELSE LET e == HighBit(x.mag)
         IN IF x.mag = PowWord(e)
            THEN [kind |-> "finite", int |-> e, integral |-> TRUE]
            ELSE IF libm_nearest /\ NearNextPow(x.mag)
                 THEN [kind |-> "finite", int |-> e + 1, integral |-> TRUE]
            ELSE IF libm_nearest /\ NearPrevPow(x.mag)
                 THEN [kind |-> "finite", int |-> e, integral |-> TRUE]
            ELSE [kind |-> "finite", int |-> e, integral |-> FALSE]

floor(l) == l

ceil(l) ==
    IF l.kind = "finite" /\ ~l.integral
    THEN [kind |-> "finite", int |-> l.int + 1, integral |-> TRUE]
    ELSE l

\* `l as u32` for an integral float: saturating, NaN becomes 0
f64_as_u32(l) == IF l.kind = "finite" THEN l.int ELSE 0

\* i64::abs: panics on i64::MIN with overflow checks, wraps to i64::MIN without
abs(v) ==
    IF v = I64_MIN
    THEN IF overflow_checks THEN Panicked ELSE Ok(I64_MIN)
    ELSE Ok(Magnitude(v))

-----------------------------------------------------------------------------
(* src/src/lib.rs                                                          *)

min_bits(value) ==
    IF value = Zero THEN Ok(1)
    ELSE IF ~IsNeg(value)
         THEN Ok(f64_as_u32(floor(log2(i64_as_f64(value)))) + 1)
    ELSE LET a == abs(value)
         IN IF a.panic THEN Panicked
            ELSE Ok(f64_as_u32(ceil(log2(i64_as_f64(a.val)))) + 1)

RECURSIVE FirstFit(_, _)
FirstFit(sizes, mb) ==
    IF sizes = <<>> THEN mb
    ELSE IF mb <= Head(sizes) THEN Head(sizes)
    ELSE FirstFit(Tail(sizes), mb)

std_bits(value) ==
    LET mb == min_bits(value)
    IN IF mb.panic THEN Panicked ELSE Ok(FirstFit(<<8, 16, 32, 64>>, mb.val))

\* twos_complement with the `+ 1` of the 64-bit branch forgotten
twos_complement_no_inc(value, num_bits) ==
    IF ~(num_bits <= 64) THEN Panicked
    ELSE IF value = Zero THEN Ok(Zero)
    ELSE IF num_bits < 64
         THEN LET cap == PowWord(num_bits)
              IN IF ~Less(value, cap) THEN Panicked
                 ELSE Ok(wrapping_sub(cap, value))
    ELSE Ok(wrapping_sub(U64_MAX, value))

twos_complement(value, num_bits) ==
    IF ~(num_bits <= 64) THEN Panicked
    ELSE IF value = Zero THEN Ok(Zero)
    ELSE IF num_bits < 64
         THEN LET cap == PowWord(num_bits)
              IN IF ~Less(value, cap) THEN Panicked
                 ELSE Ok(wrapping_sub(cap, value))
    ELSE LET r == AddCarry(wrapping_sub(U64_MAX, value), FromNat(1))
         IN IF r.carry /\ overflow_checks THEN Panicked ELSE Ok(r.sum)

\* value >> 1
Shr1(a) ==
    Word((a[1] \div 2) + (a[2] % 2) * (LimbBase \div 2),
         (a[2] \div 2) + (a[3] % 2) * (LimbBase \div 2),
         (a[3] \div 2) + (a[4] % 2) * (LimbBase \div 2),
         a[4] \div 2)

\* bin_string's loop with the test `i < num_bits - 1` forgotten
RECURSIVE bin_loop_all_seps(_, _, _)
bin_loop_all_seps(value, num_bits, i) ==
    IF i >= num_bits THEN <<>>
    ELSE (IF value[1] % 2 = 1 THEN <<"1">> ELSE <<"0">>)
         \o (IF i % 8 = 3 THEN <<"_">> ELSE <<>>)
         \o (IF i % 8 = 7 THEN <<" ">> ELSE <<>>)
         \o bin_loop_all_seps(Shr1(value), num_bits, i + 1)

\* bin_string's loop with the push of the space forgotten
RECURSIVE bin_loop_no_space(_, _, _)
bin_loop_no_space(value, num_bits, i) ==
    IF i >= num_bits THEN <<>>
    ELSE (IF value[1] % 2 = 1 THEN <<"1">> ELSE <<"0">>)
         \o (IF i < num_bits - 1 /\ i % 8 = 3 THEN <<"_">> ELSE <<>>)
         \o bin_loop_no_space(Shr1(value), num_bits, i + 1)

\* the iterations i, i+1, ... of bin_string's loop: the characters they push,
\* least significant bit first
RECURSIVE bin_loop(_, _, _)
bin_loop(value, num_bits, i) ==
    IF i >= num_bits THEN <<>>
    ELSE (IF value[1] % 2 = 1 THEN <<"1">> ELSE <<"0">>)
         \o (IF i < num_bits - 1 /\ i % 8 = 3 THEN <<"_">> ELSE <<>>)
         \o (IF i < num_bits - 1 /\ i % 8 = 7 THEN <<" ">> ELSE <<>>)
         \o bin_loop(Shr1(value), num_bits, i + 1)

Reverse(s) == [i \in 1..Len(s) |-> s[Len(s) + 1 - i]]

bin_string(value, num_bits) == Reverse(bin_loop(value, num_bits, 0))

\* add_spacers' loop over string.chars().rev().enumerate(), from index i on
RECURSIVE spacers_loop(_, _, _, _, _)
spacers_loop(rev, spacer, block_len, i, chars) ==
    IF i >= Len(rev) THEN chars
    ELSE spacers_loop(rev, spacer, block_len, i + 1,
                      chars \o <<rev[i + 1]>>
                            \o (IF i % block_len = block_len - 1
                                THEN <<spacer>> ELSE <<>>))

\* `i % block_len` panics when block_len is 0 and the loop runs at all;
\* chars.last().unwrap() panics when chars is empty
add_spacers(string, spacer, block_len) ==
    IF block_len = 0 /\ string # <<>> THEN Panicked
    ELSE LET chars == spacers_loop(Reverse(string), spacer, block_len, 0, <<>>)
         IN IF chars = <<>> THEN Panicked
            ELSE IF chars[Len(chars)] = spacer
                 THEN Ok(Reverse(SubSeq(chars, 1, Len(chars) - 1)))
            ELSE Ok(Reverse(chars))

\* str::trim_start_matches(c)
RECURSIVE trim_start_matches(_, _)
trim_start_matches(s, c) ==
    IF s # <<>> /\ Head(s) = c THEN trim_start_matches(Tail(s), c) ELSE s

starts_with(s, c) == s # <<>> /\ Head(s) = c

LowerDigits == <<"0", "1", "2", "3", "4", "5", "6", "7", "8", "9",
                 "a", "b", "c", "d", "e", "f">>
UpperDigits == <<"0", "1", "2", "3", "4", "5", "6", "7", "8", "9",
                 "A", "B", "C", "D", "E", "F">>

\* char::to_digit(radix), for radix <= 16
to_digit(c, radix) ==
    IF \E d \in 1..radix : c = LowerDigits[d] \/ c = UpperDigits[d]
    THEN Some((CHOOSE d \in 1..radix : c = LowerDigits[d] \/ c = UpperDigits[d]) - 1)
    ELSE None

\* u64::checked_add and u64::checked_mul by a radix
checked_add(a, b) ==
    LET r == AddCarry(a, b) IN IF r.carry THEN None ELSE Some(r.sum)
checked_mul(a, radix) ==
    LET p == MulSmall(a, radix) IN IF p.overflow THEN None ELSE Some(p.prod)

\* whether a magnitude is in the range of i64 with the given sign
FitsI64(mag, is_positive) ==
    IF is_positive THEN ~IsNeg(mag) ELSE ~Less(I64_MIN, mag)

\* the digit loop of i64::from_str_radix: result = result * radix +/- digit,
\* every step checked against the range of i64; mag is |result|
RECURSIVE digits_loop(_, _, _, _)
digits_loop(digits, radix, is_positive, mag) ==
    IF digits = <<>>
    THEN Some(IF is_positive THEN mag ELSE wrapping_sub(Zero, mag))
    ELSE LET x == to_digit(Head(digits), radix)
             mul == checked_mul(mag, radix)
         IN IF ~x.some THEN None
            ELSE IF ~mul.some \/ ~FitsI64(mul.val, is_positive) THEN None
            ELSE LET sum == checked_add(mul.val, FromNat(x.val))
                 IN IF ~sum.some \/ ~FitsI64(sum.val, is_positive) THEN None
                    ELSE digits_loop(Tail(digits), radix, is_positive, sum.val)

\* i64::from_str_radix: Err (here None) on the empty string, on a lone sign,
\* on an invalid digit and on overflow
from_str_radix(src, radix) ==
    IF src = <<>> THEN None
    ELSE IF Head(src) \in {"+", "-"} /\ Len(src) = 1 THEN None
    ELSE IF Head(src) = "+" THEN digits_loop(Tail(src), radix, TRUE, Zero)
    ELSE IF Head(src) = "-" THEN digits_loop(Tail(src), radix, FALSE, Zero)
    ELSE digits_loop(src, radix, TRUE, Zero)

\* parse_int looking for the radix letter before it strips the zeros
parse_int_letter_first(arg) ==
    IF arg = <<>> THEN None
    ELSE LET radix == IF starts_with(arg, "b") THEN 2
                      ELSE IF starts_with(arg, "o") THEN 8
                      ELSE IF starts_with(arg, "x") THEN 16
                      ELSE 10
             body == IF \E c \in {"b", "o", "d", "x"} : starts_with(arg, c)
                     THEN Tail(arg) ELSE arg
             trimmed == trim_start_matches(body, "0")
         IN IF trimmed = <<>> THEN Some(Zero)
            ELSE from_str_radix(trimmed, radix)

parse_int(arg) ==
    IF arg = <<>> THEN None
    ELSE LET trimmed == trim_start_matches(arg, "0")
         IN IF trimmed = <<>> THEN Some(Zero)
            ELSE IF starts_with(trimmed, "b")
                 THEN from_str_radix(trim_start_matches(trimmed, "b"), 2)
            ELSE IF starts_with(trimmed, "o")
                 THEN from_str_radix(trim_start_matches(trimmed, "o"), 8)
            ELSE IF starts_with(trimmed, "d")
                 THEN from_str_radix(trim_start_matches(trimmed, "d"), 10)
            ELSE IF starts_with(trimmed, "x")
                 THEN from_str_radix(trim_start_matches(trimmed, "x"), 16)
            ELSE from_str_radix(trimmed, 10)

\* the digits of m in the given radix, most significant first
RECURSIVE radix_string(_, _, _)
radix_string(m, radix, table) ==
    LET dm == DivSmall(m, radix)
    IN IF dm.q = Zero THEN <<table[dm.r + 1]>>
       ELSE radix_string(dm.q, radix, table) \o <<table[dm.r + 1]>>

\* u64 and i64 Display, {:X} and {:o}
u64_to_string(m) == radix_string(m, 10, LowerDigits)
i64_to_string(v) ==
    IF IsNeg(v) THEN <<"-">> \o u64_to_string(Magnitude(v)) ELSE u64_to_string(v)
upper_hex(m) == radix_string(m, 16, UpperDigits)
octal(m) == radix_string(m, 8, LowerDigits)

-----------------------------------------------------------------------------
(* src/src/main.rs                                                         *)

AsciiNames == <<"[null]", "[start of heading]", "[start of text]",
    "[end of text]", "[end of transmission]", "[enquiry]", "[acknowledge]",
    "[bell]", "[backspace]", "[horizontal tab]", "[line feed]",
    "[vertical tab]", "[form feed]", "[carriage return]", "[shift out]",
    "[shift in]", "[data link escape]", "[device control 1]",
    "[device control 2]", "[device control 3]", "[device control 4]",
    "[negative acknowledge]", "[synchronous idle]",
    "[end of transmission block]", "[cancel]", "[end of medium]",
    "[substitute]", "[escape]", "[file separator]", "[group separator]",
    "[record separator]", "[unit separator]", "[space]">>

\* the description: the character itself (given by its code) when printable,
\* else its name
ascii(value) ==
    IF IsNeg(value) \/ ~Less(value, FromNat(128)) THEN None
    ELSE LET code == ToNat(value)
         IN IF code > 32 /\ code < 127 THEN Some([char |-> code, name |-> ""])
            ELSE IF code = 127 THEN Some([char |-> code, name |-> "[del]"])
            ELSE Some([char |-> code, name |-> AsciiNames[code + 1]])

uint_info(value, num_bits) ==
    [hex |-> add_spacers(upper_hex(value), " ", 2).val,
     dec |-> add_spacers(u64_to_string(value), ",", 3).val,
     oct |-> octal(value),
     bin |-> bin_string(value, num_bits)]

unwrap_or(opt, default) == IF opt.some THEN opt.val ELSE default

\* int_info: the effective width
num_bits_of(value, user_bits, mb, sb) ==
    IF ~IsNeg(value) THEN unwrap_or(user_bits, mb) ELSE unwrap_or(user_bits, sb)

\* the early returns with the width comparison off by one
width_error_slack(value, num_bits, mb) ==
    IF num_bits = 0 \/ num_bits > 64 THEN Some([kind |-> "unsupported"])
    ELSE IF num_bits < mb - 1
         THEN Some([kind |-> "insufficient", value |-> i64_to_string(value),
                    min_bits |-> mb])
    ELSE None

\* int_info: the early returns, as the error returned or None
width_error(value, num_bits, mb) ==
    IF num_bits = 0 \/ num_bits > 64 THEN Some([kind |-> "unsupported"])
    ELSE IF num_bits < mb
         THEN Some([kind |-> "insufficient", value |-> i64_to_string(value),
                    min_bits |-> mb])
    ELSE None

\* int_info: the unsigned encoding displayed
disp_value_of(value, num_bits) ==
    IF ~IsNeg(value) THEN Ok(value)
    ELSE LET a == abs(value)
         IN IF a.panic THEN Panicked ELSE twos_complement(a.val, num_bits)

\* the String int_info returns, by its parts; [kind |-> "panic"] when it
\* does not return
int_info(value, user_bits) ==
    LET mb == min_bits(value)
        sb == std_bits(value)
    IN IF mb.panic \/ sb.panic THEN [kind |-> "panic"]
       ELSE LET num_bits == num_bits_of(value, user_bits, mb.val, sb.val)
                err == width_error(value, num_bits, mb.val)
                disp_value == disp_value_of(value, num_bits)
            IN IF err.some THEN err.val
               ELSE IF disp_value.panic THEN [kind |-> "panic"]
               ELSE [kind |-> "report",
                     min_bits |-> mb.val,
                     signed |-> IsNeg(value),
                     num_bits |-> num_bits,
                     disp_value |-> disp_value.val,
                     uint_info |-> uint_info(disp_value.val, num_bits),
                     asc |-> ascii(value)]

\* print_termline prints a rule when the terminal width is known
print_termline(out) == IF has_term THEN Append(out, [line |-> "termline"]) ELSE out

\* arg.parse::<u32>() of the --bits option
bits_arg == IF bits_opt.kind = "u32" THEN Some(bits_opt.val) ELSE None

\* what one iteration of default_action's loop prints for arg, given
\* parsed = parse_int(arg), or a panic
print_arg(arg, parsed) ==
    IF ~parsed.some THEN Ok([line |-> "parse_error", arg |-> arg])
    ELSE LET info == int_info(parsed.val, bits_arg)
         IN IF info.kind = "panic" THEN Panicked
            ELSE Ok([line |-> "int_info", arg |-> arg, info |-> info])

-----------------------------------------------------------------------------
(* Inputs.                                                                 *)

NearPowers ==
    UNION {{wrapping_add(PowWord(k), FromNat(d)), wrapping_sub(PowWord(k), FromNat(d))} :
           k \in 0..(WordBits - 1), d \in 0..NearOffset}

SmallWords == {FromNat(n) : n \in 0..MaxSmall}

\* u64 inputs: small numbers, the neighbours of every power of two, and the
\* largest values
Magnitudes ==
    NearPowers \cup SmallWords \cup {wrapping_sub(Zero, FromNat(n)) : n \in 1..2}

\* i64 inputs: the above and their negations (i64::MIN and i64::MAX included)
Words ==
    LET base == NearPowers \cup SmallWords
    IN base \cup {wrapping_sub(Zero, b) : b \in base}

Widths == 0..(WordBits + 1)

\* --bits values: absent, or a width at or next to 0, a standard size or 64
UserWidths == {0, 1, 2, 3} \cup UNION {{n - 1, n, n + 1} : n \in {8, 16, 32, 64}}
UserBits == {None} \cup {Some(w) : w \in UserWidths}

\* all sequences over S of length at most n
RECURSIVE SeqsUpTo(_, _)
SeqsUpTo(S, n) ==
    IF n = 0 THEN {<<>>}
    ELSE LET shorter == SeqsUpTo(S, n - 1)
         IN shorter \cup {Append(t, c) : t \in shorter, c \in S}

\* digit strings handed to add_spacers
SpacerDigits == {"1", "2"}
SpacerStrings == SeqsUpTo(SpacerDigits, MaxStrLen)

\* argument texts handed to parse_int: every short text over TextChars, the
\* decimal display of every i64 input, and literals just outside i64
TextChars == {"0", "1", "9", "f", "b", "o", "d", "x", "-"}
ShortTexts == SeqsUpTo(TextChars, MaxTextLen)
Display == [v \in Words |-> i64_to_string(v)]
TooBig == <<"9", "2", "2", "3", "3", "7", "2", "0", "3", "6", "8", "5", "4", "7",
            "7", "5", "8", "0", "8">>
OutOfRange == {TooBig, <<"-">> \o TooBig \o <<"0">>, <<"x">> \o [i \in 1..17 |-> "f"]}
Texts == ShortTexts \cup {Display[v] : v \in Words} \cup OutOfRange

\* the --bits option: absent, not a u32, or a u32
BitsOpts ==
    {[kind |-> "absent"], [kind |-> "unparsable"]}
    \cup {[kind |-> "u32", val |-> w] : w \in UserWidths}

\* positional arguments: 1, 300, -1, an unparsable text and i64::MIN
ArgTexts == {<<"1">>, <<"3", "0", "0">>, <<"-", "1">>, <<"b", "2">>,
             i64_to_string(I64_MIN)}
ArgLists == SeqsUpTo(ArgTexts, MaxArgs)

-----------------------------------------------------------------------------
(* The state machine.                                                      *)

Init ==
    /\ overflow_checks \in BOOLEAN
    /\ libm_nearest \in BOOLEAN
    /\ call = [fn |-> "none"]
    /\ pc = "start"
    /\ bits_opt = [kind |-> "absent"]
    /\ args = <<>>
    /\ has_term = FALSE
    /\ next_arg = 0
    /\ stdout = <<>>

MainVars == <<pc, bits_opt, args, has_term, next_arg, stdout>>
BuildVars == <<overflow_checks, libm_nearest>>

\* each behaviour applies one library function to one input
Idle == call.fn = "none" /\ pc = "start"

Call_min_bits ==
    /\ Idle
    /\ \E v \in Words :
         call' = [fn |-> "min_bits", value |-> v, ret |-> min_bits(v)]
    /\ UNCHANGED <<BuildVars, MainVars>>

Call_std_bits ==
    /\ Idle
    /\ \E v \in Words :
         call' = [fn |-> "std_bits", value |-> v, ret |-> std_bits(v)]
    /\ UNCHANGED <<BuildVars, MainVars>>

Call_twos_complement ==
    /\ Idle
    /\ \E v \in Magnitudes, n \in Widths :
         call' = [fn |-> "twos_complement", value |-> v, num_bits |-> n,
                  ret |-> twos_complement(v, n)]
    /\ UNCHANGED <<BuildVars, MainVars>>

Call_bin_string ==
    /\ Idle
    /\ \E v \in Magnitudes, n \in Widths :
         call' = [fn |-> "bin_string", value |-> v, num_bits |-> n,
                  ret |-> bin_string(v, n)]
    /\ UNCHANGED <<BuildVars, MainVars>>

Call_add_spacers ==
    /\ Idle
    /\ \E str \in SpacerStrings, sp \in {" ", ","}, n \in 0..MaxBlockLen :
         call' = [fn |-> "add_spacers", string |-> str, spacer |-> sp,
                  block_len |-> n, ret |-> add_spacers(str, sp, n)]
    /\ UNCHANGED <<BuildVars, MainVars>>

Call_parse_int ==
    /\ Idle
    /\ \E t \in Texts :
         call' = [fn |-> "parse_int", arg |-> t, ret |-> parse_int(t)]
    /\ UNCHANGED <<BuildVars, MainVars>>

Call_int_info ==
    /\ Idle
    /\ \E v \in Words, ub \in UserBits :
         call' = [fn |-> "int_info", value |-> v, user_bits |-> ub,
                  ret |-> int_info(v, ub)]
    /\ UNCHANGED <<BuildVars, MainVars>>

Next ==
    \/ Call_min_bits
    \/ Call_std_bits
    \/ Call_twos_complement
    \/ Call_bin_string
    \/ Call_add_spacers
    \/ Call_parse_int
    \/ Call_int_info

Spec == Init /\ [][Next]_vars

\* main and the head of default_action: the command line is read, an
\* unparsable --bits value ends the process with status 1, and the first
\* rule is printed when there are arguments
main ==
    /\ Idle
    /\ \E opt \in BitsOpts, list \in ArgLists, term \in BOOLEAN :
         /\ bits_opt' = opt
         /\ args' = list
         /\ has_term' = term
         /\ pc' = IF opt.kind = "unparsable" THEN "exit1"
                  ELSE IF list = <<>> THEN "done" ELSE "loop"
         /\ stdout' = IF opt.kind # "unparsable" /\ list # <<>> /\ term
                      THEN <<[line |-> "termline"]>> ELSE <<>>
    /\ UNCHANGED <<BuildVars, call, next_arg>>

\* one iteration of `for arg in parser.args()`; a panic in int_info ends the
\* process before anything is printed for the argument
default_action_loop ==
    /\ pc = "loop"
    /\ \E parsed \in {parse_int(args[next_arg + 1])} :
       \E printed \in {print_arg(args[next_arg + 1], parsed)} :
          IF printed.panic
          THEN /\ pc' = "panicked"
               /\ UNCHANGED <<next_arg, stdout>>
          ELSE /\ stdout' = print_termline(Append(stdout, printed.val))
               /\ next_arg' = next_arg + 1
               /\ pc' = IF next_arg + 1 = Len(args) THEN "done" ELSE "loop"
    /\ UNCHANGED <<BuildVars, call, bits_opt, args, has_term>>

NextMain ==
    \/ main
    \/ default_action_loop

SpecMain == Init /\ [][NextMain]_vars

-----------------------------------------------------------------------------
(* Properties.                                                             *)

\* the exact number of bits an i64 needs: 1 for 0, the bit length for v > 0,
\* and the smallest b with -2^(b-1) <= v for v < 0
BitsNeeded(v) ==
    IF v = Zero THEN 1
    ELSE IF ~IsNeg(v) THEN HighBit(v) + 1
    ELSE LET m == Magnitude(v)
         IN IF m = PowWord(HighBit(m)) THEN HighBit(m) + 1 ELSE HighBit(m) + 2

\* C1: for every i64 v, i64::MIN and i64::MAX included, min_bits(v) returns
\* the exact number of bits v needs, a number between 1 and 64.
C1_MinBits ==
    call.fn = "min_bits" =>
        /\ ~call.ret.panic
        /\ call.ret.val = BitsNeeded(call.value)
        /\ call.ret.val \in 1..WordBits

\* min_bits(i64::MAX) returns 64, one more than the 63 bits the value needs
C1_Witness ==
    /\ call.fn = "min_bits"
    /\ call.value = I64_MAX
    /\ call.ret = Ok(64)

\* C2: for every width n in 1..64 and magnitude m < 2^n, twos_complement(m, n)
\* returns 0 for m = 0 and 2^n - m for m > 0, the 64-bit sum (u64::MAX - m) + 1
\* does not overflow, and applying twos_complement again at width n gives m.
C2_Involution ==
    (/\ call.fn = "twos_complement"
     /\ call.num_bits \in 1..WordBits
     /\ call.num_bits < WordBits => Less(call.value, PowWord(call.num_bits)))
    => /\ ~call.ret.panic
       /\ IF call.value = Zero THEN call.ret.val = Zero
          ELSE LET back == AddCarry(call.ret.val, call.value)
               IN IF call.num_bits < WordBits
                  THEN back.sum = PowWord(call.num_bits) /\ ~back.carry
                  ELSE /\ back.sum = Zero /\ back.carry
                       /\ ~AddCarry(wrapping_sub(U64_MAX, call.value), FromNat(1)).carry
       /\ twos_complement(call.ret.val, call.num_bits) = Ok(call.value)

\* twos_complement(1, 64) = 0xFFFFFFFFFFFFFFFF
C2_Witness ==
    /\ call.fn = "twos_complement"
    /\ call.value = FromNat(1)
    /\ call.num_bits = WordBits
    /\ call.ret = Ok(U64_MAX)

\* distance from the right end of the digit of bit i: one separator follows
\* every fourth bit below it
DigitPos(i) == i + (i \div 4)

\* C3: for every width n in 0..64, bin_string(value, n) has exactly n binary
\* digits, the digit of bit i (from the right) being bit i of value; exactly
\* one '_' stands left of bit i when i mod 8 = 3 and exactly one ' ' when
\* i mod 8 = 7, only for i < n - 1; there are no other characters, the string
\* never begins with a separator, and n = 0 gives the empty string.
C3_BinString ==
    (call.fn = "bin_string" /\ call.num_bits \in 0..WordBits) =>
        LET s == call.ret
            n == call.num_bits
            at(p) == s[Len(s) - p]
            count(S) == Cardinality({j \in 1..Len(s) : s[j] \in S})
        IN /\ n = 0 => s = <<>>
           /\ n > 0 => s[1] \in {"0", "1"}
           /\ count({"0", "1"}) = n
           /\ \A i \in 0..(n - 1) :
                /\ DigitPos(i) < Len(s)
                /\ at(DigitPos(i)) = IF Bit(call.value, i) = 1 THEN "1" ELSE "0"
           /\ \A i \in 0..(n - 2) :
                /\ i % 8 = 3 => at(DigitPos(i) + 1) = "_"
                /\ i % 8 = 7 => at(DigitPos(i) + 1) = " "
           /\ count({"_"}) = Cardinality({i \in 0..(n - 2) : i % 8 = 3})
           /\ count({" "}) = Cardinality({i \in 0..(n - 2) : i % 8 = 7})
           /\ Len(s) = count({"0", "1"}) + count({"_"}) + count({" "})

\* bin_string(256, 12) = "0001 0000_0000"
C3_Witness ==
    /\ call.fn = "bin_string"
    /\ call.value = FromNat(256)
    /\ call.num_bits = 12
    /\ call.ret = <<"0", "0", "0", "1", " ", "0", "0", "0", "0", "_",
                    "0", "0", "0", "0">>

\* C4, as stated: for every width n in 1..64 the length of bin_string(value, n)
\* is n + floor((n-1)/4) - floor((n-1)/8).
C4_Original ==
    (call.fn = "bin_string" /\ call.num_bits \in 1..WordBits) =>
        Len(call.ret) = call.num_bits + ((call.num_bits - 1) \div 4)
                                      - ((call.num_bits - 1) \div 8)

\* C4, amended: for every width n in 1..64 the length of bin_string(value, n)
\* is n + floor((n-1)/4): one separator after every fourth bit but the last.
C4_Length ==
    (call.fn = "bin_string" /\ call.num_bits \in 1..WordBits) =>
        Len(call.ret) = call.num_bits + ((call.num_bits - 1) \div 4)

\* a 16-bit string has 19 characters, not 18
C4_Witness ==
    /\ call.fn = "bin_string"
    /\ call.num_bits = 16
    /\ Len(call.ret) = 19

RadixLetters == {"b", "o", "d", "x"}

RadixOf(letter) ==
    CASE letter = "b" -> 2
      [] letter = "o" -> 8
      [] letter = "x" -> 16
      [] OTHER -> 10

\* the characters that are digits in a radix, and the value of a digit
DigitChars(radix) ==
    {LowerDigits[d] : d \in 1..radix} \cup {UpperDigits[d] : d \in 1..radix}
DigitValue(c) ==
    (CHOOSE d \in 1..16 : c \in {LowerDigits[d], UpperDigits[d]}) - 1

\* the number a digit string denotes
RECURSIVE ValueOf(_, _)
ValueOf(digits, radix) ==
    IF digits = <<>> THEN 0
    ELSE ValueOf(SubSeq(digits, 1, Len(digits) - 1), radix) * radix
         + DigitValue(digits[Len(digits)])

\* C5: parse_int strips the leading zeros before it looks for a radix letter:
\* a text of z zeros, at most one radix letter and a non-empty string of digits
\* of that radix (here: a text of at most MaxTextLen characters) parses to the
\* value of the digits; a non-empty text of zeros parses to 0; the empty text
\* gives None; and the decimal display of every v >= 0 parses back to v.
C5_ParseInt ==
    call.fn = "parse_int" =>
        LET t == call.arg
        IN /\ t = <<>> => call.ret = None
           /\ (t # <<>> /\ \A j \in 1..Len(t) : t[j] = "0") => call.ret = Some(Zero)
           /\ Len(t) <= MaxTextLen =>
                \A z \in 0..Len(t), k \in 0..1 :
                    LET radix == IF k = 1 THEN RadixOf(t[z + 1]) ELSE 10
                        digits == SubSeq(t, z + k + 1, Len(t))
                    IN (/\ z + k < Len(t)
                        /\ \A j \in 1..z : t[j] = "0"
                        /\ k = 1 => t[z + 1] \in RadixLetters
                        /\ \A j \in 1..Len(digits) : digits[j] \in DigitChars(radix))
                       => call.ret = Some(FromNat(ValueOf(digits, radix)))
           /\ \A v \in Words :
                (~IsNeg(v) /\ t = Display[v]) => call.ret = Some(v)

\* "0xf" parses to 15
C5_Witness ==
    /\ call.fn = "parse_int"
    /\ call.arg = <<"0", "x", "f">>
    /\ call.ret = Some(FromNat(15))

\* C6: after the zeros are stripped, parse_int removes exactly one radix
\* letter and hands everything after it to the digit parser, so a text whose
\* radix letter is repeated yields no value.
C6_OneLetterRemoved ==
    call.fn = "parse_int" =>
        LET trimmed == trim_start_matches(call.arg, "0")
        IN (trimmed # <<>> /\ Head(trimmed) \in RadixLetters) =>
               /\ call.ret = from_str_radix(Tail(trimmed), RadixOf(Head(trimmed)))
               /\ (Len(trimmed) >= 2 /\ trimmed[2] = trimmed[1]) => call.ret = None

\* "bb1" parses to 1
C6_Witness ==
    /\ call.fn = "parse_int"
    /\ call.arg = <<"b", "b", "1">>
    /\ call.ret = Some(FromNat(1))

\* C7: for every string of length L >= 0 without the spacer and every
\* block_len >= 1, add_spacers returns a string that does not start with the
\* spacer, that is the input once the spacers are removed, and whose spacers
\* stand exactly between the characters whose distance from the right end is
\* a positive multiple of block_len.
C7_AddSpacers ==
    (call.fn = "add_spacers" /\ call.block_len >= 1) =>
        /\ ~call.ret.panic
        /\ LET s == call.ret.val
               L == Len(call.string)
               NotSpacer(c) == c # call.spacer
           IN /\ s = <<>> \/ s[1] # call.spacer
              /\ SelectSeq(s, NotSpacer) = call.string
              /\ L >= 1 => Len(s) = L + ((L - 1) \div call.block_len)
              /\ \A p \in 1..Len(s) :
                    (s[Len(s) + 1 - p] = call.spacer)
                        <=> (p % (call.block_len + 1) = 0)

\* add_spacers("", ',', 3) panics
C7_Witness ==
    /\ call.fn = "add_spacers"
    /\ call.string = <<>>
    /\ call.block_len = 3
    /\ call.ret.panic

\* the InsufficientWidth error naming v and min_bits(v), and nothing else
InsufficientWidth(v, mb) ==
    [kind |-> "insufficient", value |-> i64_to_string(v), min_bits |-> mb]

\* C8, as stated: for every v and every override w, 0 included, with
\* w < min_bits(v), int_info returns the InsufficientWidth error naming v and
\* min_bits(v), and no report.
C8_Original ==
    (call.fn = "int_info" /\ call.user_bits.some) =>
        LET mb == min_bits(call.value)
        IN (~mb.panic /\ call.user_bits.val < mb.val) =>
               call.ret = InsufficientWidth(call.value, mb.val)

\* C8, amended: for every v and every override w with 1 <= w < min_bits(v),
\* int_info returns the InsufficientWidth error naming v and min_bits(v), and
\* no report.
C8_Insufficient ==
    (call.fn = "int_info" /\ call.user_bits.some /\ call.user_bits.val >= 1) =>
        LET mb == min_bits(call.value)
        IN (~mb.panic /\ call.user_bits.val < mb.val) =>
               call.ret = InsufficientWidth(call.value, mb.val)

\* 256 with width 8: "Error: 256 requires at least 9 bits."
C8_Witness ==
    /\ call.fn = "int_info"
    /\ call.value = FromNat(256)
    /\ call.user_bits = Some(8)
    /\ call.ret = [kind |-> "insufficient", value |-> <<"2", "5", "6">>,
                   min_bits |-> 9]

StdSizes == {8, 16, 32, 64}

\* C9: std_bits(v) is always one of 8, 16, 32, 64 and the smallest of them
\* that is >= min_bits(v); int_info without an override reports at width
\* min_bits(v) for v >= 0 and std_bits(v) for v < 0, and with an override w,
\* min_bits(v) <= w <= 64, at width w; the encoding at width n is v for v >= 0
\* and 2^n + v for v < 0.
C9_EffectiveWidth ==
    /\ call.fn = "std_bits" =>
          LET mb == min_bits(call.value)
          IN /\ ~call.ret.panic
             /\ ~mb.panic
             /\ call.ret.val \in StdSizes
             /\ mb.val <= call.ret.val
             /\ \A size \in StdSizes : mb.val <= size => call.ret.val <= size
    /\ call.fn = "int_info" =>
          LET mb == min_bits(call.value)
              sb == std_bits(call.value)
              w == call.user_bits
              v == call.value
          IN (~w.some \/ (~mb.panic /\ mb.val <= w.val /\ w.val <= WordBits)) =>
                /\ ~mb.panic
                /\ ~sb.panic
                /\ call.ret.kind = "report"
                /\ call.ret.num_bits = IF w.some THEN w.val
                                       ELSE IF ~IsNeg(v) THEN mb.val ELSE sb.val
                /\ IF ~IsNeg(v) THEN call.ret.disp_value = v
                   ELSE LET back == AddCarry(call.ret.disp_value, Magnitude(v))
                        IN IF call.ret.num_bits < WordBits
                           THEN back.sum = PowWord(call.ret.num_bits) /\ ~back.carry
                           ELSE back.sum = Zero /\ back.carry

\* int_info(i64::MIN, None) returns nothing: it panics
C9_Witness ==
    /\ call.fn = "int_info"
    /\ call.value = I64_MIN
    /\ ~call.user_bits.some
    /\ call.ret.kind = "panic"

\* the lines printed for arguments, in order
Outputs == SelectSeq(stdout, LAMBDA l : l.line # "termline")

\* C10: once the options are read, default_action prints exactly one output per
\* argument, in argument order, no argument stops the processing of the ones
\* after it, and the run ends only when every argument has been processed.
C10_EveryArgumentProcessed ==
    pc \in {"loop", "done", "panicked"} =>
        /\ Len(Outputs) = next_arg
        /\ \A i \in 1..next_arg : Outputs[i].arg = args[i]
        /\ pc # "loop" => next_arg = Len(args)

\* the run of `-9223372036854775808 1` ends in a panic with nothing printed
\* for either argument
C10_Witness ==
    /\ pc = "panicked"
    /\ args = <<i64_to_string(I64_MIN), <<"1">>>>
    /\ next_arg = 0
    /\ Outputs = <<>>

\* the arguments int_info hands to twos_complement are acceptable: the
\* magnitude is computed, num_bits <= 64 and magnitude < 2^num_bits
EncodingArgsValid(value, num_bits) ==
    LET a == abs(value)
    IN /\ ~a.panic
       /\ num_bits <= WordBits
       /\ num_bits < WordBits => Less(a.val, PowWord(num_bits))

\* C11: for every i64 value, down to i64::MIN, and every width override or
\* none, int_info never panics: whenever it reaches the encoding of a negative
\* value it calls twos_complement with num_bits <= 64 and a magnitude below
\* 2^num_bits, and the magnitude itself is computed without overflow.
C11_EncodingReachable ==
    call.fn = "int_info" =>
        LET mb == min_bits(call.value)
            sb == std_bits(call.value)
        IN /\ call.ret.kind # "panic"
           /\ ~mb.panic
           /\ ~sb.panic
           /\ LET num_bits == num_bits_of(call.value, call.user_bits, mb.val, sb.val)
              IN (IsNeg(call.value)
                    /\ ~width_error(call.value, num_bits, mb.val).some)
                 => EncodingArgsValid(call.value, num_bits)

\* release build, i64::MIN with --bits 8: the width passes both checks
\* (min_bits returns 1) and twos_complement(2^63, 8) fails `value < cap`
C11_Witness ==
    /\ call.fn = "int_info"
    /\ call.value = I64_MIN
    /\ call.user_bits = Some(8)
    /\ ~overflow_checks
    /\ min_bits(call.value) = Ok(1)
    /\ ~width_error(call.value, 8, 1).some
    /\ ~EncodingArgsValid(call.value, 8)
    /\ call.ret.kind = "panic"

====
